---- MODULE Spec2Model ----
(***************************************************************************)
(* Clause bank of a Convolutional Tsetlin Machine (src/tmu/ClauseBank.c).  *)
(*                                                                         *)
(* A machine word (unsigned int, 32 bits) is modelled as the set of its    *)
(* one-bit positions, a subset of 0..31: & is intersection, | is union,    *)
(* ^ is symmetric difference, ~ is the complement in 0..31.  The arrays    *)
(* ta_state, ind_state, clause_and_target, Xi, literal_active are flat     *)
(* zero-based arrays of words, indexed exactly as the C code indexes them. *)
(***************************************************************************)
EXTENDS Integers, Sequences, FiniteSets, TLC

VARIABLES
    number_of_features,        \* F
    number_of_state_bits,      \* B of the TA layer
    number_of_state_bits_ind,  \* B of the inclusion-indicator layer
    number_of_patches,         \* P
    ta_state,                  \* flat array [clause][chunk][bit-plane] of words
    ind_state,                 \* flat array [clause][chunk][bit-plane] of words
    clause_and_target,         \* flat array [clause][chunk] of words
    call,                      \* the last call: its arguments, random draws and results
    steps                      \* number of feedback calls made so far

vars == <<number_of_features, number_of_state_bits, number_of_state_bits_ind,
          number_of_patches, ta_state, ind_state, clause_and_target, call, steps>>

params == <<number_of_features, number_of_state_bits, number_of_state_bits_ind,
            number_of_patches>>

----------------------------------------------------------------------------
(* Bounds of the model. *)

\* Largest number of bit-planes of a counter column.
MaxStateBits == 2
\* Largest length of Xi in words (number_of_patches * number_of_ta_chunks).
MaxXiWords == 2
\* Largest number of feedback calls in one behaviour.
MaxSteps == 1
\* Number of clauses of the bank.
number_of_clauses == 2

----------------------------------------------------------------------------
(* Machine words. *)

\* Width of unsigned int, the chunk size of the bank.
W == 32

BitPositions == 0..(W - 1)
AllOnes == BitPositions
Zero == {}

And(a, b) == a \cap b
Or(a, b) == a \cup b
Xor(a, b) == (a \ b) \cup (b \ a)
Not(a) == BitPositions \ a

\* a << n on a 32-bit word, 0 <= n < 32.
Shl(a, n) == {i + n : i \in a} \cap BitPositions

\* !a : the word 1 when a is zero, the word 0 otherwise.
LogicalNot(a) == IF a = Zero THEN {0} ELSE Zero

\* 1 << n
Bit(n) == {n}

\* a - 1 in unsigned arithmetic: 0 - 1 wraps to all-ones; otherwise the lowest
\* one-bit is cleared and every bit below it is set.
MinusOne(a) ==
    IF a = Zero THEN AllOnes
    ELSE LET low == CHOOSE i \in a : \A j \in a : i <= j
         IN (a \ {low}) \cup {j \in BitPositions : j < low}

\* (int) log2(a) for a nonzero word: the position of its highest one-bit.
Log2(a) == CHOOSE i \in a : \A j \in a : j <= i

\* Words of a single column: any bits among positions 0 and 1, with the thirty
\* bits above them all clear or all set.
LowWords == SUBSET {0, 1}
InputWords == LowWords \cup {w \cup (BitPositions \ {0, 1}) : w \in LowWords}

Pow2(n) == 2 ^ n
Min(a, b) == IF a <= b THEN a ELSE b
Max(a, b) == IF a >= b THEN a ELSE b

\* The value of counter i of the column of B words that starts at arr[base].
RECURSIVE CounterValue(_, _, _, _)
CounterValue(arr, base, B, i) ==
    IF B = 0 THEN 0
    ELSE CounterValue(arr, base, B - 1, i)
         + (IF i \in arr[base + B - 1] THEN Pow2(B - 1) ELSE 0)

----------------------------------------------------------------------------
(* cb_inc, cb_dec: bit-sliced saturating counters. *)

\* The carry loop of cb_inc from plane b on; stops when the carry is zero.
RECURSIVE cb_inc_loop(_, _, _, _, _)
cb_inc_loop(arr, base, carry, b, B) ==
    IF b >= B \/ carry = Zero THEN [state |-> arr, carry |-> carry]
    ELSE LET carry_next == And(arr[base + b], carry)
             arr2 == [arr EXCEPT ![base + b] = Xor(arr[base + b], carry)]
         IN cb_inc_loop(arr2, base, carry_next, b + 1, B)

\* cb_inc with the clamp after the loop left out: a saturated counter wraps.
cb_inc_noclamp(arr, base, active, B) ==
    cb_inc_loop(arr, base, active, 0, B).state

\* The clamp of cb_inc: a carry left after the last plane marks the counters
\* that were at all-ones; every plane gets their bits back.
cb_inc_clamp(r, base, B) ==
    IF r.carry # Zero
    THEN [x \in DOMAIN r.state |->
             IF x >= base /\ x < base + B THEN Or(r.state[x], r.carry)
             ELSE r.state[x]]
    ELSE r.state

\* cb_inc(&arr[base], active, B)
cb_inc(arr, base, active, B) ==
    cb_inc_clamp(cb_inc_loop(arr, base, active, 0, B), base, B)

\* The borrow loop of cb_dec from plane b on.
RECURSIVE cb_dec_loop(_, _, _, _, _)
cb_dec_loop(arr, base, carry, b, B) ==
    IF b >= B \/ carry = Zero THEN [state |-> arr, carry |-> carry]
    ELSE LET carry_next == And(Not(arr[base + b]), carry)
             arr2 == [arr EXCEPT ![base + b] = Xor(arr[base + b], carry)]
         IN cb_dec_loop(arr2, base, carry_next, b + 1, B)

\* The clamp of cb_dec: a borrow left after the last plane marks the counters
\* that were at zero; every plane has their bits cleared.
cb_dec_clamp(r, base, B) ==
    IF r.carry # Zero
    THEN [x \in DOMAIN r.state |->
             IF x >= base /\ x < base + B THEN And(r.state[x], Not(r.carry))
             ELSE r.state[x]]
    ELSE r.state

\* cb_dec(&arr[base], active, B)
cb_dec(arr, base, active, B) ==
    cb_dec_clamp(cb_dec_loop(arr, base, active, 0, B), base, B)

----------------------------------------------------------------------------
(* Layout of a bank: chunks, the tail filter, and the driver's bit packing. *)

\* number_of_ta_chunks = (number_of_features-1)/32 + 1
NumberOfTaChunks(F) == (F - 1) \div W + 1

\* The filter with every bit set whatever number_of_features is.
FilterAllOnes(F) == AllOnes

\* filter: the low F % 32 bits, or all-ones when F % 32 = 0.
Filter(F) ==
    IF F % W # 0 THEN Not(Shl(AllOnes, F % W)) ELSE AllOnes

\* Bank-wide bit indices the evaluation runs write: literals 0, 1 and F-1, and
\* the first padding bit F when the tail chunk has one.
ModelledBits(F) == {0, 1, F - 1, F} \cap (0..(NumberOfTaChunks(F) * W - 1))
\* Bank-wide bit indices the feedback runs write: the first and the last
\* literal and the first padding bit.
FeedbackBits(F) == {0, F - 1, F} \cap (0..(NumberOfTaChunks(F) * W - 1))
\* The literals among a set of bit indices.
RealBits(F, bits) == {l \in bits : l < F}

\* Word k of the packing of a set of bank-wide bit indices.
ChunkWord(S, k) == {l % W : l \in {m \in S : m \div W = k}}

\* literal_active, or one patch of Xi, packed from a set of bit indices.
PackChunks(S, K) == [k \in 0..(K - 1) |-> ChunkWord(S, k)]

\* Xi of P patches, patch p packed from sets[p]: word p*K + k.
PackXi(sets, P, K) == [x \in 0..(P * K - 1) |-> ChunkWord(sets[x \div K], x % K)]

\* One layer (B planes) of C clauses in which counter l of clause j is at
\* 2^(B-1) when l is in high[j], at 2^(B-1) - 1 when it is in low[j] and at 0
\* otherwise: the top plane has the bits of high[j], every lower plane those
\* of low[j].
LayerOf(F, B, high, low) ==
    LET K == NumberOfTaChunks(F)
    IN [x \in 0..(number_of_clauses * K * B - 1) |->
           LET j == x \div (K * B)
               k == (x % (K * B)) \div B
               b == x % B
           IN IF b = B - 1 THEN ChunkWord(high[j], k)
              ELSE ChunkWord(low[j], k)]

\* The ledger of C clauses, clause j packed from sets[j].
LedgerOf(F, sets) ==
    LET K == NumberOfTaChunks(F)
    IN [x \in 0..(number_of_clauses * K - 1) |-> ChunkWord(sets[x \div K], x % K)]

Clauses == 0..(number_of_clauses - 1)

----------------------------------------------------------------------------
(* Clause evaluation, one clause whose stripe starts at ta[clause_pos]. *)

\* One patch in Feedback and Update mode: every chunk's action bits are
\* contained in Xi | !literal_active, the tail chunk under the filter.
PatchOutputMasked(ta, clause_pos, K, B, filter, literal_active, Xi, patch) ==
    /\ \A k \in 0..(K - 2) :
          LET pos == clause_pos + k * B + B - 1
          IN And(ta[pos], Or(Xi[patch * K + k], LogicalNot(literal_active[k]))) = ta[pos]
    /\ LET pos == clause_pos + (K - 1) * B + B - 1
       IN And(And(ta[pos], Or(Xi[patch * K + K - 1], LogicalNot(literal_active[K - 1]))), filter)
            = And(ta[pos], filter)

\* One patch in Patchwise and Predict mode: no literal mask.
PatchOutputPlain(ta, clause_pos, K, B, filter, Xi, patch) ==
    /\ \A k \in 0..(K - 2) :
          LET pos == clause_pos + k * B + B - 1
          IN And(ta[pos], Xi[patch * K + k]) = ta[pos]
    /\ LET pos == clause_pos + (K - 1) * B + B - 1
       IN And(And(ta[pos], Xi[patch * K + K - 1]), filter) = And(ta[pos], filter)

\* The patches 0..P-1 in their natural order, as a sequence.
PatchSeq(P) == [i \in 1..P |-> i - 1]

\* cb_calculate_clause_output_feedback: output_one_patches, the matching
\* patches in patch order.  clause_output is 1 when it is not empty, and
\* clause_patch is its element number fast_rand() % count.
cb_calculate_clause_output_feedback(ta, clause_pos, K, B, filter, P, literal_active, Xi) ==
    SelectSeq(PatchSeq(P),
              LAMBDA patch : PatchOutputMasked(ta, clause_pos, K, B, filter,
                                               literal_active, Xi, patch))

\* cb_calculate_clause_output_update: 1 at the first matching patch, else 0.
cb_calculate_clause_output_update(ta, clause_pos, K, B, filter, P, literal_active, Xi) ==
    IF \E patch \in 0..(P - 1) :
          PatchOutputMasked(ta, clause_pos, K, B, filter, literal_active, Xi, patch)
    THEN 1 ELSE 0

\* cb_calculate_clause_output_patchwise: output[patch] for every patch.
cb_calculate_clause_output_patchwise(ta, clause_pos, K, B, filter, P, Xi) ==
    [patch \in 0..(P - 1) |->
        IF PatchOutputPlain(ta, clause_pos, K, B, filter, Xi, patch) THEN 1 ELSE 0]

\* The chunk loop of cb_calculate_clause_output_predict from chunk k on: it
\* leaves the loop at the first chunk that fails, before all_exclude is updated.
RECURSIVE predict_chunks(_, _, _, _, _, _, _, _)
predict_chunks(ta, clause_pos, K, B, Xi, patch, k, all_exclude) ==
    IF k >= K - 1 THEN [output |-> TRUE, all_exclude |-> all_exclude]
    ELSE LET pos == clause_pos + k * B + B - 1
         IN IF And(ta[pos], Xi[patch * K + k]) # ta[pos]
            THEN [output |-> FALSE, all_exclude |-> all_exclude]
            ELSE predict_chunks(ta, clause_pos, K, B, Xi, patch, k + 1,
                                all_exclude /\ ta[pos] = Zero)

\* The tail chunk of one patch of cb_calculate_clause_output_predict, r being
\* output and all_exclude after the chunk loop: output && all_exclude == 0.
predict_tail(r, ta, pos, filter, X) ==
    /\ r.output
    /\ And(And(ta[pos], X), filter) = And(ta[pos], filter)
    /\ ~(r.all_exclude /\ And(ta[pos], filter) = Zero)

\* One patch of cb_calculate_clause_output_predict.
PredictPatch(ta, clause_pos, K, B, filter, Xi, patch) ==
    predict_tail(predict_chunks(ta, clause_pos, K, B, Xi, patch, 0, TRUE),
                 ta, clause_pos + (K - 1) * B + B - 1, filter, Xi[patch * K + K - 1])

\* Predict mode without the all-exclude rule.
cb_calculate_clause_output_predict_noguard(ta, clause_pos, K, B, filter, P, Xi) ==
    IF \E patch \in 0..(P - 1) : PatchOutputPlain(ta, clause_pos, K, B, filter, Xi, patch)
    THEN 1 ELSE 0

\* cb_calculate_clause_output_predict
cb_calculate_clause_output_predict(ta, clause_pos, K, B, filter, P, Xi) ==
    IF \E patch \in 0..(P - 1) : PredictPatch(ta, clause_pos, K, B, filter, Xi, patch)
    THEN 1 ELSE 0

\* The test for a second offending bit left out.
NeverMoreThanOneBit(w) == FALSE

\* The word has more than one bit set: (w & (w - 1)) > 0.
MoreThanOneBit(w) == And(w, MinusOne(w)) # Zero

\* offending_literals of chunk k: (ta & (Xi | ~literal_active)) ^ ta.
OffendingLiterals(action, X, L) == Xor(And(action, Or(X, Not(L))), action)

\* offending_literals of the tail chunk, both sides under the filter.
OffendingLiteralsTail(action, X, L, filter) ==
    Xor(And(And(action, Or(X, Not(L))), filter), And(action, filter))

\* The chunk loop of cb_calculate_clause_output_single_false_literal from chunk
\* k on, for one patch.  st is [max_one, already, id]: max_one_offending_literal,
\* already_one_offending_literal and offending_literal_id.
RECURSIVE single_false_literal_chunks(_, _, _, _, _, _, _, _, _)
RECURSIVE single_false_literal_chunk(_, _, _, _, _, _, _, _, _, _)

\* Chunk k, whose offending_literals is off.
single_false_literal_chunk(ta, clause_pos, K, B, literal_active, Xi, patch, k, st, off) ==
    IF MoreThanOneBit(off) THEN [st EXCEPT !.max_one = FALSE]
    ELSE IF off # Zero
    THEN IF ~st.already
         THEN single_false_literal_chunks(
                  ta, clause_pos, K, B, literal_active, Xi, patch, k + 1,
                  [st EXCEPT !.already = TRUE, !.id = Log2(off)])
         ELSE [st EXCEPT !.max_one = FALSE]
    ELSE single_false_literal_chunks(
             ta, clause_pos, K, B, literal_active, Xi, patch, k + 1, st)

single_false_literal_chunks(ta, clause_pos, K, B, literal_active, Xi, patch, k, st) ==
    IF k >= K - 1 THEN st
    ELSE single_false_literal_chunk(
             ta, clause_pos, K, B, literal_active, Xi, patch, k, st,
             OffendingLiterals(ta[clause_pos + k * B + B - 1], Xi[patch * K + k],
                               literal_active[k]))

\* The patch loop from `patch` on.  cands are the candidates collected so far,
\* id is offending_literal_id, which lives across patches.
RECURSIVE single_false_literal_patches(_, _, _, _, _, _, _, _, _, _, _)
RECURSIVE single_false_literal_tail(_, _, _, _, _, _, _, _, _, _, _, _)
RECURSIVE single_false_literal_collect(_, _, _, _, _, _, _, _, _, _, _)

\* The end of the body of the patch loop: the patch is a candidate when it has
\* exactly one offending literal.
single_false_literal_collect(ta, clause_pos, K, B, filter, P, literal_active, Xi, patch, cands, st) ==
    single_false_literal_patches(
        ta, clause_pos, K, B, filter, P, literal_active, Xi, patch + 1,
        IF st.max_one /\ st.already THEN Append(cands, st.id) ELSE cands,
        st.id)

\* The tail chunk of a patch, whose offending_literals is off, st being the
\* state after the chunk loop.  Its two break statements leave the patch loop.
single_false_literal_tail(ta, clause_pos, K, B, filter, P, literal_active, Xi, patch, cands, st, off) ==
    IF MoreThanOneBit(off) THEN cands
    ELSE IF off # Zero /\ st.already THEN cands
    ELSE single_false_literal_collect(
             ta, clause_pos, K, B, filter, P, literal_active, Xi, patch, cands,
             IF off # Zero THEN [st EXCEPT !.already = TRUE, !.id = Log2(off)] ELSE st)

single_false_literal_patches(ta, clause_pos, K, B, filter, P, literal_active, Xi, patch, cands, id) ==
    IF patch >= P THEN cands
    ELSE single_false_literal_tail(
             ta, clause_pos, K, B, filter, P, literal_active, Xi, patch, cands,
             single_false_literal_chunks(
                 ta, clause_pos, K, B, literal_active, Xi, patch, 0,
                 [max_one |-> TRUE, already |-> FALSE, id |-> id]),
             OffendingLiteralsTail(ta[clause_pos + (K - 1) * B + B - 1],
                                   Xi[patch * K + K - 1], literal_active[K - 1], filter))

\* The return value: the candidate at position rand % count, -1 without one.
single_false_literal_pick(cands, rand) ==
    IF Len(cands) > 0 THEN cands[(rand % Len(cands)) + 1] ELSE -1

\* cb_calculate_clause_output_single_false_literal
cb_calculate_clause_output_single_false_literal(ta, clause_pos, K, B, filter, P, literal_active, Xi, rand) ==
    single_false_literal_pick(
        single_false_literal_patches(
            ta, clause_pos, K, B, filter, P, literal_active, Xi, 0, <<>>, 0),
        rand)

----------------------------------------------------------------------------
(* The per-bank evaluation entry points. *)

\* cb_calculate_clause_outputs_predict: clause_output[j] for every clause.
cb_calculate_clause_outputs_predict(ta, F, B, P, Xi) ==
    LET filter == Filter(F)
        K == NumberOfTaChunks(F)
    IN [j \in Clauses |->
           cb_calculate_clause_output_predict(ta, j * K * B, K, B, filter, P, Xi)]

\* cb_calculate_clause_outputs_update
cb_calculate_clause_outputs_update(ta, F, B, P, literal_active, Xi) ==
    LET filter == Filter(F)
        K == NumberOfTaChunks(F)
    IN [j \in Clauses |->
           cb_calculate_clause_output_update(ta, j * K * B, K, B, filter, P,
                                             literal_active, Xi)]

\* cb_calculate_clause_outputs_patchwise: clause_output[j*P + patch].
cb_calculate_clause_outputs_patchwise(ta, F, B, P, Xi) ==
    LET filter == Filter(F)
        K == NumberOfTaChunks(F)
    IN [x \in 0..(number_of_clauses * P - 1) |->
           cb_calculate_clause_output_patchwise(
               ta, (x \div P) * K * B, K, B, filter, P, Xi)[x % P]]

\* The end of cb_calculate_clause_output_feedback: clause_output and the
\* clause_patch picked with fast_rand() % count.  clause_patch is left
\* unassigned by the code when nothing matches; the model reports -1 then.
feedback_pick(output_one_patches, rand) ==
    [clause_output |-> IF Len(output_one_patches) > 0 THEN 1 ELSE 0,
     clause_patch |-> IF Len(output_one_patches) > 0
                      THEN output_one_patches[(rand % Len(output_one_patches)) + 1]
                      ELSE -1,
     output_one_patches |-> output_one_patches]

\* Feedback mode as the three feedback routines call it for clause j:
\* clause_output, clause_patch and the match set.
FeedbackMode(ta, j, F, B, P, literal_active, Xi, rand) ==
    feedback_pick(
        cb_calculate_clause_output_feedback(
            ta, j * NumberOfTaChunks(F) * B, NumberOfTaChunks(F), B, Filter(F), P,
            literal_active, Xi),
        rand)

\* The search as cb_type_iii_feedback calls it for clause j.
SingleFalseLiteral(ta, j, F, B, P, literal_active, Xi, rand) ==
    cb_calculate_clause_output_single_false_literal(
        ta, j * NumberOfTaChunks(F) * B, NumberOfTaChunks(F), B, Filter(F), P,
        literal_active, Xi, rand)

----------------------------------------------------------------------------
(* Feedback.  draws[j] holds the outcomes of the random draws made while   *)
(* clause j is processed; a routine returns the arrays it has written and, *)
(* per clause, what it computed on the way (res).                          *)

\* cb_initialize_random_streams: feedback_to_ta with the bits of the distinct
\* features f the loop has drawn (`chosen`, each below number_of_features).
cb_initialize_random_streams(F, K, chosen) ==
    [k \in 0..(K - 1) |-> {f % W : f \in {g \in chosen : g \div W = k}}]

\* What is recorded for a clause the loop skips.
Skipped == [processed |-> FALSE, clause_output |-> 0, clause_patch |-> -1,
            feedback_to_ta |-> <<>>, offending_literal |-> -1,
            ind_inc |-> FALSE, ta_dec |-> FALSE]

\* Type Ia whose increment leaves out the literal_active factor.
RECURSIVE type_ia_chunks_unmasked(_, _, _, _, _, _, _, _, _, _)
type_ia_chunks_unmasked(ta, clause_pos, K, B, boost, literal_active, Xi, clause_patch, feedback_to_ta, k) ==
    IF k >= K THEN ta
    ELSE LET ta_pos == k * B
             X == Xi[clause_patch * K + k]
             ta1 == IF boost = 1
                    THEN cb_inc(ta, clause_pos + ta_pos, X, B)
                    ELSE cb_inc(ta, clause_pos + ta_pos, And(X, Not(feedback_to_ta[k])), B)
             ta2 == cb_dec(ta1, clause_pos + ta_pos,
                           And(And(literal_active[k], Not(X)), feedback_to_ta[k]), B)
         IN type_ia_chunks_unmasked(ta2, clause_pos, K, B, boost, literal_active, Xi,
                                    clause_patch, feedback_to_ta, k + 1)

\* Type Ia, chunks k..K-1 of the clause at clause_pos.
RECURSIVE type_ia_chunks(_, _, _, _, _, _, _, _, _, _)
type_ia_chunks(ta, clause_pos, K, B, boost, literal_active, Xi, clause_patch, feedback_to_ta, k) ==
    IF k >= K THEN ta
    ELSE LET ta_pos == k * B
             X == Xi[clause_patch * K + k]
             ta1 == IF boost = 1
                    THEN cb_inc(ta, clause_pos + ta_pos, And(literal_active[k], X), B)
                    ELSE cb_inc(ta, clause_pos + ta_pos,
                                And(And(literal_active[k], X), Not(feedback_to_ta[k])), B)
             ta2 == cb_dec(ta1, clause_pos + ta_pos,
                           And(And(literal_active[k], Not(X)), feedback_to_ta[k]), B)
         IN type_ia_chunks(ta2, clause_pos, K, B, boost, literal_active, Xi,
                           clause_patch, feedback_to_ta, k + 1)

\* Type Ib, chunks k..K-1.
RECURSIVE type_ib_chunks(_, _, _, _, _, _, _)
type_ib_chunks(ta, clause_pos, K, B, literal_active, feedback_to_ta, k) ==
    IF k >= K THEN ta
    ELSE type_ib_chunks(
             cb_dec(ta, clause_pos + k * B, And(literal_active[k], feedback_to_ta[k]), B),
             clause_pos, K, B, literal_active, feedback_to_ta, k + 1)

\* Type I after the evaluation: fm is what Feedback mode returned for the
\* clause at clause_pos; Type Ia when the clause matched, Type Ib otherwise.
type_i_update(ta, clause_pos, K, B, boost, literal_active, Xi, fm, feedback_to_ta) ==
    [ta |-> IF fm.clause_output = 1
            THEN type_ia_chunks(ta, clause_pos, K, B, boost, literal_active, Xi,
                                fm.clause_patch, feedback_to_ta, 0)
            ELSE type_ib_chunks(ta, clause_pos, K, B, literal_active, feedback_to_ta, 0),
     res |-> [Skipped EXCEPT !.processed = TRUE,
                             !.clause_output = fm.clause_output,
                             !.clause_patch = fm.clause_patch,
                             !.feedback_to_ta = feedback_to_ta]]

\* The Feedback-mode result with the all-exclude rule of Predict mode applied.
all_exclude_guard(ta, clause_pos, K, B, filter, fm) ==
    IF \A k \in 0..(K - 1) :
           And(ta[clause_pos + k * B + B - 1], IF k = K - 1 THEN filter ELSE AllOnes) = Zero
    THEN [fm EXCEPT !.clause_output = 0]
    ELSE fm

\* Type I with the all-exclude rule of Predict mode applied to the Feedback-mode
\* output: a clause without included literals takes the Type Ib path.
type_i_clause_all_exclude_guard(ta, j, F, B, P, boost, literal_active, Xi, d) ==
    type_i_update(ta, j * NumberOfTaChunks(F) * B, NumberOfTaChunks(F), B, boost,
                  literal_active, Xi,
                  all_exclude_guard(ta, j * NumberOfTaChunks(F) * B, NumberOfTaChunks(F), B,
                                    Filter(F),
                                    FeedbackMode(ta, j, F, B, P, literal_active, Xi, d.rand)),
                  cb_initialize_random_streams(F, NumberOfTaChunks(F), d.chosen))

\* The body of the clause loop of cb_type_i_feedback for a clause that passes
\* the gate.
type_i_clause(ta, j, F, B, P, boost, literal_active, Xi, d) ==
    type_i_update(ta, j * NumberOfTaChunks(F) * B, NumberOfTaChunks(F), B, boost,
                  literal_active, Xi,
                  FeedbackMode(ta, j, F, B, P, literal_active, Xi, d.rand),
                  cb_initialize_random_streams(F, NumberOfTaChunks(F), d.chosen))

\* The gate without the test of clause_active.
GateIgnoringActive(pass, active) == pass

\* The gate at the head of the clause loop of Type I and Type II: the clause
\* is skipped when the draw exceeds update_p or the clause is not active.
Gate(pass, active) == pass /\ active # 0

\* cb_type_i_feedback, clauses j..C-1.
RECURSIVE cb_type_i_feedback(_, _, _, _, _, _, _, _, _, _, _)

\* The loop goes on after clause j, whose body returned r.
type_i_next(r, res, j, F, B, P, boost, clause_active, literal_active, Xi, draws) ==
    cb_type_i_feedback(r.ta, Append(res, r.res), j + 1, F, B, P, boost,
                       clause_active, literal_active, Xi, draws)

cb_type_i_feedback(ta, res, j, F, B, P, boost, clause_active, literal_active, Xi, draws) ==
    IF j >= number_of_clauses THEN [ta |-> ta, res |-> res]
    ELSE IF ~Gate(draws[j + 1].pass, clause_active[j])
    THEN cb_type_i_feedback(ta, Append(res, Skipped), j + 1, F, B, P, boost,
                            clause_active, literal_active, Xi, draws)
    ELSE type_i_next(
             type_i_clause(ta, j, F, B, P, boost, literal_active, Xi, draws[j + 1]),
             res, j, F, B, P, boost, clause_active, literal_active, Xi, draws)

\* Type II without the literal_active factor: every excluded literal that is
\* false on the chosen patch is incremented, switched off or not.
RECURSIVE type_ii_chunks_unmasked(_, _, _, _, _, _, _, _)
type_ii_chunks_unmasked(ta, clause_pos, K, B, literal_active, Xi, clause_patch, k) ==
    IF k >= K THEN ta
    ELSE type_ii_chunks_unmasked(
             cb_inc(ta, clause_pos + k * B,
                    And(Not(Xi[clause_patch * K + k]), Not(ta[clause_pos + k * B + B - 1])),
                    B),
             clause_pos, K, B, literal_active, Xi, clause_patch, k + 1)

\* Type II, chunks k..K-1.
RECURSIVE type_ii_chunks(_, _, _, _, _, _, _, _)
type_ii_chunks(ta, clause_pos, K, B, literal_active, Xi, clause_patch, k) ==
    IF k >= K THEN ta
    ELSE LET ta_pos == k * B
         IN type_ii_chunks(
                cb_inc(ta, clause_pos + ta_pos,
                       And(And(literal_active[k], Not(Xi[clause_patch * K + k])),
                           Not(ta[clause_pos + ta_pos + B - 1])), B),
                clause_pos, K, B, literal_active, Xi, clause_patch, k + 1)

\* Type II after the evaluation: fm is what Feedback mode returned.
type_ii_update(ta, clause_pos, K, B, literal_active, Xi, fm) ==
    [ta |-> IF fm.clause_output = 1
            THEN type_ii_chunks(ta, clause_pos, K, B, literal_active, Xi, fm.clause_patch, 0)
            ELSE ta,
     res |-> [Skipped EXCEPT !.processed = TRUE,
                             !.clause_output = fm.clause_output,
                             !.clause_patch = fm.clause_patch]]

\* The body of the clause loop of cb_type_ii_feedback.
type_ii_clause(ta, j, F, B, P, literal_active, Xi, d) ==
    type_ii_update(ta, j * NumberOfTaChunks(F) * B, NumberOfTaChunks(F), B,
                   literal_active, Xi,
                   FeedbackMode(ta, j, F, B, P, literal_active, Xi, d.rand))

\* cb_type_ii_feedback, clauses j..C-1.
RECURSIVE cb_type_ii_feedback(_, _, _, _, _, _, _, _, _, _)

\* The loop goes on after clause j, whose body returned r.
type_ii_next(r, res, j, F, B, P, clause_active, literal_active, Xi, draws) ==
    cb_type_ii_feedback(r.ta, Append(res, r.res), j + 1, F, B, P,
                        clause_active, literal_active, Xi, draws)

cb_type_ii_feedback(ta, res, j, F, B, P, clause_active, literal_active, Xi, draws) ==
    IF j >= number_of_clauses THEN [ta |-> ta, res |-> res]
    ELSE IF ~Gate(draws[j + 1].pass, clause_active[j])
    THEN cb_type_ii_feedback(ta, Append(res, Skipped), j + 1, F, B, P,
                             clause_active, literal_active, Xi, draws)
    ELSE type_ii_next(
             type_ii_clause(ta, j, F, B, P, literal_active, Xi, draws[j + 1]),
             res, j, F, B, P, clause_active, literal_active, Xi, draws)

\* Type III, the increment of ind_state for chunks k..K-1.
RECURSIVE type_iii_ind_inc(_, _, _, _, _, _, _, _, _, _)
type_iii_ind_inc(ind, cat, j, K, B_ind, literal_active, Xi, clause_patch, clause_pos_ind, k) ==
    IF k >= K THEN ind
    ELSE type_iii_ind_inc(
             cb_inc(ind, clause_pos_ind + k * B_ind,
                    And(And(literal_active[k], cat[j * K + k]), Xi[clause_patch * K + k]),
                    B_ind),
             cat, j, K, B_ind, literal_active, Xi, clause_patch, clause_pos_ind, k + 1)

\* Type III, the decrement of ind_state for chunks k..K-1.
RECURSIVE type_iii_ind_dec(_, _, _, _, _, _, _, _, _, _)
type_iii_ind_dec(ind, cat, j, K, B_ind, literal_active, Xi, clause_patch, clause_pos_ind, k) ==
    IF k >= K THEN ind
    ELSE type_iii_ind_dec(
             cb_dec(ind, clause_pos_ind + k * B_ind,
                    And(And(literal_active[k], Not(cat[j * K + k])),
                        Xi[clause_patch * K + k]),
                    B_ind),
             cat, j, K, B_ind, literal_active, Xi, clause_patch, clause_pos_ind, k + 1)

\* "Invert literals" without the removal: the ledger is only grown, whatever
\* the target.
type_iii_invert_grow_only(cat, j, K, target) ==
    [x \in DOMAIN cat |->
        IF x >= j * K /\ x < j * K + K THEN Or(cat[x], Not(cat[x])) ELSE cat[x]]

\* Type III, "Invert literals": every ledger word of clause j.
type_iii_invert(cat, j, K, target) ==
    [x \in DOMAIN cat |->
        IF x >= j * K /\ x < j * K + K
        THEN LET remove == IF target # 0 THEN cat[x] ELSE Zero
                 add == Not(cat[x])
             IN And(Or(cat[x], add), Not(remove))
        ELSE cat[x]]

\* Type III, the toggle of the ledger bit of the offending literal.
type_iii_toggle(cat, j, K, target, offending_literal) ==
    LET ta_chunk == offending_literal \div W
        ta_pos == offending_literal % W
        x == j * K + ta_chunk
    IN IF And(cat[x], Bit(ta_pos)) = Zero
       THEN [cat EXCEPT ![x] = Or(cat[x], Bit(ta_pos))]
       ELSE IF target # 0
       THEN [cat EXCEPT ![x] = And(cat[x], Not(Bit(ta_pos)))]
       ELSE cat

\* Type III, the final decrement of ta_state for chunks k..K-1.
RECURSIVE type_iii_ta_dec(_, _, _, _, _, _, _, _, _)
type_iii_ta_dec(ta, ind, K, B_ta, B_ind, literal_active, clause_pos_ta, clause_pos_ind, k) ==
    IF k >= K THEN ta
    ELSE type_iii_ta_dec(
             cb_dec(ta, clause_pos_ta + k * B_ta,
                    And(literal_active[k],
                        Not(ind[clause_pos_ind + k * B_ind + B_ind - 1])),
                    B_ta),
             ind, K, B_ta, B_ind, literal_active, clause_pos_ta, clause_pos_ind, k + 1)

\* Type III, the end of the loop body: the final decrement of ta_state when
\* the draw against update_p lets it through.  ind and cat are ind_state and
\* clause_and_target as the body has left them.
type_iii_finish(ta, ind, cat, j, K, B_ta, B_ind, literal_active, d, fm, offending_literal) ==
    [ta |-> IF d.pass
            THEN type_iii_ta_dec(ta, ind, K, B_ta, B_ind, literal_active,
                                 j * K * B_ta, j * K * B_ind, 0)
            ELSE ta,
     ind |-> ind,
     cat |-> cat,
     res |-> [Skipped EXCEPT !.processed = TRUE,
                             !.clause_output = fm.clause_output,
                             !.clause_patch = fm.clause_patch,
                             !.offending_literal = offending_literal,
                             !.ind_inc = (fm.clause_output = 1 /\ d.ind_inc),
                             !.ta_dec = d.pass]]

\* Type III, the branch `if (clause_output)`.
type_iii_matched(ta, ind, cat, j, K, B_ta, B_ind, literal_active, Xi, target, d, fm) ==
    type_iii_finish(
        ta,
        type_iii_ind_dec(
            IF d.ind_inc
            THEN type_iii_ind_inc(ind, cat, j, K, B_ind, literal_active, Xi,
                                  fm.clause_patch, j * K * B_ind, 0)
            ELSE ind,
            cat, j, K, B_ind, literal_active, Xi, fm.clause_patch, j * K * B_ind, 0),
        type_iii_invert(cat, j, K, target),
        j, K, B_ta, B_ind, literal_active, d, fm, -1)

\* Type III, the branch `if (!clause_output)`, offending_literal being what the
\* search returned.
type_iii_not_matched(ta, ind, cat, j, K, B_ta, B_ind, literal_active, target, d, fm, offending_literal) ==
    type_iii_finish(
        ta, ind,
        IF offending_literal # -1
        THEN type_iii_toggle(cat, j, K, target, offending_literal)
        ELSE cat,
        j, K, B_ta, B_ind, literal_active, d, fm, offending_literal)

\* Type III after the evaluation: fm is what Feedback mode returned.
type_iii_update(ta, ind, cat, j, F, B_ta, B_ind, P, literal_active, Xi, target, d, fm) ==
    IF fm.clause_output = 1
    THEN type_iii_matched(ta, ind, cat, j, NumberOfTaChunks(F), B_ta, B_ind,
                          literal_active, Xi, target, d, fm)
    ELSE type_iii_not_matched(
             ta, ind, cat, j, NumberOfTaChunks(F), B_ta, B_ind, literal_active, target, d, fm,
             SingleFalseLiteral(ta, j, F, B_ta, P, literal_active, Xi, d.lit_rand))

\* The body of the clause loop of cb_type_iii_feedback for an active clause.
\* d.ind_inc tells whether `if (target)` and the draw against 1 - 1/d both let
\* the increment of ind_state through.
type_iii_clause(ta, ind, cat, j, F, B_ta, B_ind, P, literal_active, Xi, target, d) ==
    type_iii_update(ta, ind, cat, j, F, B_ta, B_ind, P, literal_active, Xi, target,
                    [pass |-> d.pass, lit_rand |-> d.lit_rand,
                     ind_inc |-> (target # 0 /\ d.dpass)],
                    FeedbackMode(ta, j, F, B_ta, P, literal_active, Xi, d.rand))

\* cb_type_iii_feedback, clauses j..C-1.
RECURSIVE cb_type_iii_feedback(_, _, _, _, _, _, _, _, _, _, _, _, _, _)

\* The loop goes on after clause j, whose body returned r.
type_iii_next(r, res, j, F, B_ta, B_ind, P, clause_active, literal_active, Xi, target, draws) ==
    cb_type_iii_feedback(r.ta, r.ind, r.cat, Append(res, r.res), j + 1, F, B_ta, B_ind,
                         P, clause_active, literal_active, Xi, target, draws)

cb_type_iii_feedback(ta, ind, cat, res, j, F, B_ta, B_ind, P, clause_active, literal_active, Xi, target, draws) ==
    IF j >= number_of_clauses THEN [ta |-> ta, ind |-> ind, cat |-> cat, res |-> res]
    ELSE IF clause_active[j] = 0
    THEN cb_type_iii_feedback(ta, ind, cat, Append(res, Skipped), j + 1, F, B_ta, B_ind,
                              P, clause_active, literal_active, Xi, target, draws)
    ELSE type_iii_next(
             type_iii_clause(ta, ind, cat, j, F, B_ta, B_ind, P, literal_active, Xi,
                             target, draws[j + 1]),
             res, j, F, B_ta, B_ind, P, clause_active, literal_active, Xi, target, draws)

----------------------------------------------------------------------------
(* SpecBitOps: cb_inc and cb_dec applied to one column of B words.  The    *)
(* column is ta_state of a bank of one clause and one chunk.               *)

NoCall == [op |-> "none", active |-> Zero, before |-> <<>>]

InitBitOps ==
    /\ number_of_state_bits \in 1..MaxStateBits
    /\ ta_state \in [0..(number_of_state_bits - 1) -> InputWords]
    /\ number_of_features = W
    /\ number_of_state_bits_ind = 1
    /\ number_of_patches = 1
    /\ ind_state = <<>>
    /\ clause_and_target = <<>>
    /\ call = NoCall
    /\ steps = 0

Inc ==
    \E active \in InputWords :
        /\ ta_state' = cb_inc(ta_state, 0, active, number_of_state_bits)
        /\ call' = [op |-> "inc", active |-> active, before |-> ta_state]
        /\ UNCHANGED <<params, ind_state, clause_and_target, steps>>

Dec ==
    \E active \in InputWords :
        /\ ta_state' = cb_dec(ta_state, 0, active, number_of_state_bits)
        /\ call' = [op |-> "dec", active |-> active, before |-> ta_state]
        /\ UNCHANGED <<params, ind_state, clause_and_target, steps>>

NextBitOps == Inc \/ Dec

SpecBitOps == InitBitOps /\ [][NextBitOps]_vars

\* C1: cb_inc sets every counter selected by the mask to min(v+1, 2^B-1),
\* cb_dec sets it to max(v-1, 0), and a counter the mask does not select keeps
\* its value; so a counter at all-ones stays all-ones under an increment and a
\* counter at zero stays zero under a decrement.
C1_Saturating ==
    call.op \in {"inc", "dec"} =>
        \A i \in BitPositions :
            LET B == number_of_state_bits
                old == CounterValue(call.before, 0, B, i)
                new == CounterValue(ta_state, 0, B, i)
            IN new = IF i \notin call.active THEN old
                     ELSE IF call.op = "inc" THEN Min(old + 1, Pow2(B) - 1)
                     ELSE Max(old - 1, 0)

\* An increment has acted on a counter at all-ones, on a counter below it, and
\* has left a third counter out of its mask.
C1_Witness ==
    /\ call.op = "inc"
    /\ number_of_state_bits = 2
    /\ \E i, j \in call.active :
        /\ CounterValue(call.before, 0, 2, i) = 3
        /\ CounterValue(ta_state, 0, 2, i) = 3
        /\ CounterValue(call.before, 0, 2, j) = 1
        /\ CounterValue(ta_state, 0, 2, j) = 2
    /\ \E i \in BitPositions \ call.active :
        CounterValue(ta_state, 0, 2, i) = 3

----------------------------------------------------------------------------
(* The bank read literal by literal, for stating the claims. *)

\* Literal l (a bank-wide index) is included by clause j of bank ta.
Included(ta, j, l) ==
    LET K == NumberOfTaChunks(number_of_features)
        B == number_of_state_bits
    IN (l % W) \in ta[j * K * B + (l \div W) * B + B - 1]

\* All bit positions of a stripe, and the literals among them.
StripeBits == 0..(NumberOfTaChunks(number_of_features) * W - 1)
Literals == 0..(number_of_features - 1)

\* Bit l of patch p of an Xi array, and of a literal_active array.
XiBit(Xi, p, l) == (l % W) \in Xi[p * NumberOfTaChunks(number_of_features) + l \div W]
ActiveBit(literal_active, l) == (l % W) \in literal_active[l \div W]

AllExclude(ta, j) == \A l \in Literals : ~Included(ta, j, l)

\* Counter l of clause j in a layer of B planes.
CounterOf(arr, j, B, l) ==
    CounterValue(arr, j * NumberOfTaChunks(number_of_features) * B + (l \div W) * B,
                 B, l % W)

\* Bit l of a feedback_to_ta array.
MaskBit(feedback_to_ta, l) == (l % W) \in feedback_to_ta[l \div W]

\* Bit l of the ledger of clause j.
LedgerBit(cat, j, l) ==
    (l % W) \in cat[j * NumberOfTaChunks(number_of_features) + l \div W]

\* The literals of clause j that offend patch p: included, active and not set
\* in Xi.
Offenders(ta, j, literal_active, Xi, p) ==
    {l \in Literals :
        /\ Included(ta, j, l)
        /\ ActiveBit(literal_active, l)
        /\ ~XiBit(Xi, p, l)}

\* The stripes of clause j in the three arrays: index sets.
TaStripe(j) ==
    LET n == NumberOfTaChunks(number_of_features) * number_of_state_bits
    IN (j * n)..(j * n + n - 1)
IndStripe(j) ==
    LET n == NumberOfTaChunks(number_of_features) * number_of_state_bits_ind
    IN (j * n)..(j * n + n - 1)
LedgerStripe(j) ==
    LET n == NumberOfTaChunks(number_of_features)
    IN (j * n)..(j * n + n - 1)

IsFeedback == call.op \in {"type_i", "type_ii", "type_iii"}

----------------------------------------------------------------------------
(* SpecEval: the evaluation modes applied once to a bank and an example.   *)
(* Every mode is also applied to a second bank, `other`, that differs from *)
(* ta_state only at the padding positions of the tail chunks.              *)

EvalFeatureCounts == {1, 2, W, W + 1}

\* Bit positions of the tail chunk at or beyond number_of_features.
PadPositions(F) == {i \in BitPositions : (NumberOfTaChunks(F) - 1) * W + i >= F}

\* What the second bank holds at the padding positions of its tail words.
PadChoices(F) ==
    {pad \in {Zero, {F % W}, PadPositions(F)} : pad \subseteq PadPositions(F)}

OtherBank(ta, F, B, pad) ==
    LET K == NumberOfTaChunks(F)
    IN [x \in DOMAIN ta |->
           IF (x % (K * B)) \div B = K - 1
           THEN (ta[x] \ PadPositions(F)) \cup pad
           ELSE ta[x]]

\* Clause j of the initial bank includes S when j is even, the other modelled
\* bits when j is odd.
Alternate(S, All) == [j \in Clauses |-> IF j % 2 = 0 THEN S ELSE All \ S]

NoEval == [op |-> "none", Xi |-> <<>>, literal_active |-> <<>>, rand |-> 0,
           other |-> <<>>, out |-> <<>>, out_other |-> <<>>]

InitEval ==
    /\ number_of_features \in EvalFeatureCounts
    /\ number_of_state_bits \in 1..MaxStateBits
    /\ number_of_patches \in 0..MaxXiWords
    /\ number_of_patches * NumberOfTaChunks(number_of_features) <= MaxXiWords
    /\ \E S \in SUBSET ModelledBits(number_of_features) :
          LET high == Alternate(S, ModelledBits(number_of_features))
              real == RealBits(number_of_features, ModelledBits(number_of_features))
          IN ta_state = LayerOf(number_of_features, number_of_state_bits, high,
                                [j \in Clauses |-> real \ high[j]])
    /\ number_of_state_bits_ind = 1
    /\ ind_state = <<>>
    /\ clause_and_target = <<>>
    /\ call = NoEval
    /\ steps = 0

\* The examples and literal masks the driver passes.
XiInputs(F, P, bits) ==
    {PackXi(sets, P, NumberOfTaChunks(F)) : sets \in [0..(P - 1) -> SUBSET bits]}
LiteralActiveInputs(F, bits) ==
    {PackChunks(S, NumberOfTaChunks(F)) : S \in SUBSET bits}
\* Values of fast_rand() that select among at most P elements.
RandInputs(P) == 0..Max(P - 1, 0)

EvalFrame == UNCHANGED <<params, ta_state, ind_state, clause_and_target, steps>>

PredictEval ==
    /\ call.op = "none"
    /\ \E Xi \in XiInputs(number_of_features, number_of_patches,
                           ModelledBits(number_of_features)),
          pad \in PadChoices(number_of_features) :
        LET F == number_of_features
            B == number_of_state_bits
            P == number_of_patches
            other == OtherBank(ta_state, F, B, pad)
        IN call' = [op |-> "predict", Xi |-> Xi, literal_active |-> <<>>, rand |-> 0,
                    other |-> other,
                    out |-> cb_calculate_clause_outputs_predict(ta_state, F, B, P, Xi),
                    out_other |-> cb_calculate_clause_outputs_predict(other, F, B, P, Xi)]
    /\ EvalFrame

UpdateEval ==
    /\ call.op = "none"
    /\ \E Xi \in XiInputs(number_of_features, number_of_patches,
                           ModelledBits(number_of_features)),
          literal_active \in LiteralActiveInputs(number_of_features,
                                                 ModelledBits(number_of_features)),
          pad \in PadChoices(number_of_features) :
        LET F == number_of_features
            B == number_of_state_bits
            P == number_of_patches
            other == OtherBank(ta_state, F, B, pad)
        IN call' = [op |-> "update", Xi |-> Xi, literal_active |-> literal_active,
                    rand |-> 0, other |-> other,
                    out |-> cb_calculate_clause_outputs_update(
                                ta_state, F, B, P, literal_active, Xi),
                    out_other |-> cb_calculate_clause_outputs_update(
                                      other, F, B, P, literal_active, Xi)]
    /\ EvalFrame

PatchwiseEval ==
    /\ call.op = "none"
    /\ \E Xi \in XiInputs(number_of_features, number_of_patches,
                           ModelledBits(number_of_features)),
          pad \in PadChoices(number_of_features) :
        LET F == number_of_features
            B == number_of_state_bits
            P == number_of_patches
            other == OtherBank(ta_state, F, B, pad)
        IN call' = [op |-> "patchwise", Xi |-> Xi, literal_active |-> <<>>, rand |-> 0,
                    other |-> other,
                    out |-> cb_calculate_clause_outputs_patchwise(ta_state, F, B, P, Xi),
                    out_other |-> cb_calculate_clause_outputs_patchwise(other, F, B, P, Xi)]
    /\ EvalFrame

FeedbackEval ==
    /\ call.op = "none"
    /\ \E Xi \in XiInputs(number_of_features, number_of_patches,
                           ModelledBits(number_of_features)),
          literal_active \in LiteralActiveInputs(number_of_features,
                                                 ModelledBits(number_of_features)),
          rand \in RandInputs(number_of_patches),
          pad \in PadChoices(number_of_features) :
        LET F == number_of_features
            B == number_of_state_bits
            P == number_of_patches
            other == OtherBank(ta_state, F, B, pad)
        IN call' = [op |-> "feedback", Xi |-> Xi, literal_active |-> literal_active,
                    rand |-> rand, other |-> other,
                    out |-> [j \in Clauses |->
                                FeedbackMode(ta_state, j, F, B, P, literal_active, Xi, rand)],
                    out_other |-> [j \in Clauses |->
                                FeedbackMode(other, j, F, B, P, literal_active, Xi, rand)]]
    /\ EvalFrame

SearchEval ==
    /\ call.op = "none"
    /\ \E Xi \in XiInputs(number_of_features, number_of_patches,
                           ModelledBits(number_of_features)),
          literal_active \in LiteralActiveInputs(number_of_features,
                                                 ModelledBits(number_of_features)),
          rand \in RandInputs(number_of_patches),
          pad \in PadChoices(number_of_features) :
        LET F == number_of_features
            B == number_of_state_bits
            P == number_of_patches
            other == OtherBank(ta_state, F, B, pad)
        IN call' = [op |-> "search", Xi |-> Xi, literal_active |-> literal_active,
                    rand |-> rand, other |-> other,
                    out |-> [j \in Clauses |->
                                SingleFalseLiteral(ta_state, j, F, B, P,
                                                   literal_active, Xi, rand)],
                    out_other |-> [j \in Clauses |->
                                SingleFalseLiteral(other, j, F, B, P,
                                                   literal_active, Xi, rand)]]
    /\ EvalFrame

NextEval == PredictEval \/ UpdateEval \/ PatchwiseEval \/ FeedbackEval \/ SearchEval

SpecEval == InitEval /\ [][NextEval]_vars

----------------------------------------------------------------------------
(* SpecFeedback: calls of the three feedback routines on a bank of         *)
(* number_of_clauses clauses whose padding bits are zero.  Initially the   *)
(* even clauses include a set S of literals with literal 0 in it, the odd  *)
(* clauses the other literals; every counter is next to the include /      *)
(* exclude boundary; the indicators are high on S and the ledger is S.     *)

FeedbackFeatureCounts == {2, W + 1}

FeedbackLiterals(F) == RealBits(F, FeedbackBits(F))

NoFeedback == [op |-> "none", Xi |-> <<>>, literal_active |-> <<>>,
               clause_active |-> <<>>, boost |-> 0, target |-> 0, res |-> <<>>,
               ta_before |-> <<>>, ind_before |-> <<>>, cat_before |-> <<>>]

InitFeedback ==
    /\ number_of_features \in FeedbackFeatureCounts
    /\ number_of_state_bits \in 1..MaxStateBits
    /\ number_of_state_bits_ind = MaxStateBits + 1 - number_of_state_bits
    /\ number_of_patches \in 0..MaxXiWords
    /\ number_of_patches * NumberOfTaChunks(number_of_features) <= MaxXiWords
    /\ \E S \in {T \in SUBSET FeedbackLiterals(number_of_features) : 0 \in T} :
          LET real == FeedbackLiterals(number_of_features)
              high == Alternate(S, real)
          IN /\ ta_state = LayerOf(number_of_features, number_of_state_bits, high,
                                   [j \in Clauses |-> real \ high[j]])
             /\ ind_state = LayerOf(number_of_features, number_of_state_bits_ind,
                                    [j \in Clauses |-> S], [j \in Clauses |-> real \ S])
             /\ clause_and_target = LedgerOf(number_of_features, [j \in Clauses |-> S])
    /\ call = NoFeedback
    /\ steps = 0

ClauseActiveInputs == [Clauses -> {0, 1}]

\* The draws of a clause that is skipped whatever they are.
NoDraws == [pass |-> TRUE, rand |-> 0, chosen |-> {}, dpass |-> FALSE, lit_rand |-> 0]

\* Number of patches that match clause j in Feedback mode.
MatchCount(j, literal_active, Xi) ==
    Len(FeedbackMode(ta_state, j, number_of_features, number_of_state_bits,
                     number_of_patches, literal_active, Xi, 0).output_one_patches)

\* Number of candidates the search collects for clause j.
CandidateCount(j, literal_active, Xi) ==
    LET K == NumberOfTaChunks(number_of_features)
        B == number_of_state_bits
    IN Len(single_false_literal_patches(ta_state, j * K * B, K, B,
                                        Filter(number_of_features), number_of_patches,
                                        literal_active, Xi, 0, <<>>, 0))

\* The draws of clause j in Type I: the gate; then, when the clause is let
\* through, the index of the chosen patch among the matches and the features
\* set in feedback_to_ta.  A draw that is not made, or not looked at, is
\* fixed.
DrawsI(j, clause_active, literal_active, Xi) ==
    IF clause_active[j] = 0 THEN {NoDraws}
    ELSE {[NoDraws EXCEPT !.pass = FALSE]}
         \cup {[NoDraws EXCEPT !.rand = r, !.chosen = c] :
                  r \in 0..Max(MatchCount(j, literal_active, Xi) - 1, 0),
                  c \in SUBSET FeedbackLiterals(number_of_features)}

\* The draws of clause j in Type II.
DrawsII(j, clause_active, literal_active, Xi) ==
    IF clause_active[j] = 0 THEN {NoDraws}
    ELSE {[NoDraws EXCEPT !.pass = FALSE]}
         \cup {[NoDraws EXCEPT !.rand = r] :
                  r \in 0..Max(MatchCount(j, literal_active, Xi) - 1, 0)}

\* The draws of clause j in Type III: the chosen patch and, for target = 1,
\* the draw against 1 - 1/d when the clause matches; the chosen candidate
\* when it does not; then the gate of the final decrement.
DrawsIII(j, clause_active, literal_active, Xi, target) ==
    IF clause_active[j] = 0 THEN {NoDraws}
    ELSE IF MatchCount(j, literal_active, Xi) > 0
    THEN {[NoDraws EXCEPT !.pass = p, !.rand = r, !.dpass = dp] :
             p \in BOOLEAN,
             r \in 0..(MatchCount(j, literal_active, Xi) - 1),
             dp \in IF target # 0 THEN BOOLEAN ELSE {FALSE}}
    ELSE {[NoDraws EXCEPT !.pass = p, !.lit_rand = r] :
             p \in BOOLEAN,
             r \in 0..Max(CandidateCount(j, literal_active, Xi) - 1, 0)}

\* All sequences d with d[j + 1] in valid[j] for the clauses j < n.
RECURSIVE DrawVectors(_, _)
DrawVectors(valid, n) ==
    IF n = 0 THEN {<<>>}
    ELSE {Append(v, d) : v \in DrawVectors(valid, n - 1), d \in valid[n - 1]}

TypeI ==
    /\ steps < MaxSteps
    /\ \E Xi \in XiInputs(number_of_features, number_of_patches,
                           FeedbackBits(number_of_features)),
          literal_active \in LiteralActiveInputs(number_of_features,
                                                 FeedbackBits(number_of_features)),
          clause_active \in ClauseActiveInputs,
          boost \in {0, 1} :
        \E draws \in DrawVectors([j \in Clauses |->
                                     DrawsI(j, clause_active, literal_active, Xi)],
                                 number_of_clauses) :
            \E r \in {cb_type_i_feedback(ta_state, <<>>, 0, number_of_features,
                                        number_of_state_bits, number_of_patches, boost,
                                        clause_active, literal_active, Xi, draws)} :
               /\ ta_state' = r.ta
               /\ call' = [op |-> "type_i", Xi |-> Xi, literal_active |-> literal_active,
                           clause_active |-> clause_active, boost |-> boost,
                           target |-> 0, res |-> r.res, ta_before |-> ta_state,
                           ind_before |-> ind_state, cat_before |-> clause_and_target]
    /\ steps' = steps + 1
    /\ UNCHANGED <<params, ind_state, clause_and_target>>

TypeII ==
    /\ steps < MaxSteps
    /\ \E Xi \in XiInputs(number_of_features, number_of_patches,
                           FeedbackBits(number_of_features)),
          literal_active \in LiteralActiveInputs(number_of_features,
                                                 FeedbackBits(number_of_features)),
          clause_active \in ClauseActiveInputs :
        \E draws \in DrawVectors([j \in Clauses |->
                                     DrawsII(j, clause_active, literal_active, Xi)],
                                 number_of_clauses) :
            \E r \in {cb_type_ii_feedback(ta_state, <<>>, 0, number_of_features,
                                         number_of_state_bits, number_of_patches,
                                         clause_active, literal_active, Xi, draws)} :
               /\ ta_state' = r.ta
               /\ call' = [op |-> "type_ii", Xi |-> Xi, literal_active |-> literal_active,
                           clause_active |-> clause_active, boost |-> 0,
                           target |-> 0, res |-> r.res, ta_before |-> ta_state,
                           ind_before |-> ind_state, cat_before |-> clause_and_target]
    /\ steps' = steps + 1
    /\ UNCHANGED <<params, ind_state, clause_and_target>>

TypeIII ==
    /\ steps < MaxSteps
    /\ \E Xi \in XiInputs(number_of_features, number_of_patches,
                           FeedbackBits(number_of_features)),
          literal_active \in LiteralActiveInputs(number_of_features,
                                                 FeedbackBits(number_of_features)),
          clause_active \in ClauseActiveInputs,
          target \in {0, 1} :
        \E draws \in DrawVectors([j \in Clauses |->
                                     DrawsIII(j, clause_active, literal_active, Xi, target)],
                                 number_of_clauses) :
            \E r \in {cb_type_iii_feedback(ta_state, ind_state, clause_and_target, <<>>, 0,
                                          number_of_features, number_of_state_bits,
                                          number_of_state_bits_ind, number_of_patches,
                                          clause_active, literal_active, Xi, target, draws)} :
               /\ ta_state' = r.ta
               /\ ind_state' = r.ind
               /\ clause_and_target' = r.cat
               /\ call' = [op |-> "type_iii", Xi |-> Xi, literal_active |-> literal_active,
                           clause_active |-> clause_active, boost |-> 0,
                           target |-> target, res |-> r.res, ta_before |-> ta_state,
                           ind_before |-> ind_state, cat_before |-> clause_and_target]
    /\ steps' = steps + 1
    /\ UNCHANGED params

NextFeedback == TypeI \/ TypeII \/ TypeIII

SpecFeedback == InitFeedback /\ [][NextFeedback]_vars

\* C2: a clause with no included literal below F gets 0 from PredictEval
\* whatever Xi and P are, and 1 from UpdateEval when P >= 1; a clause with an
\* included literal gets 1 from PredictEval exactly when some patch has all
\* its included literals set in Xi.
C2_AllExcludeGuard ==
    /\ call.op = "predict" =>
          \A j \in Clauses :
              call.out[j] =
                  IF /\ ~AllExclude(ta_state, j)
                     /\ \E p \in 0..(number_of_patches - 1) :
                           \A l \in Literals :
                               Included(ta_state, j, l) => XiBit(call.Xi, p, l)
                  THEN 1 ELSE 0
    /\ call.op = "update" =>
          \A j \in Clauses :
              (AllExclude(ta_state, j) /\ number_of_patches >= 1) => call.out[j] = 1

\* PredictEval has given 0 to an all-exclude clause whose padding action bit is
\* set, on an example with a patch, and 1 to the other clause.
C2_Witness ==
    /\ call.op = "predict"
    /\ number_of_patches >= 1
    /\ \E j, i \in Clauses :
          /\ AllExclude(ta_state, j)
          /\ \E l \in StripeBits \ Literals : Included(ta_state, j, l)
          /\ call.out[j] = 0
          /\ call.out[i] = 1

\* C3: two banks that agree on every position below F get the same outputs
\* from Predict, Update, Patchwise and Feedback mode (output, chosen patch and
\* match set) for the same Xi and literal_active.
C3_TailMasking ==
    call.op \in {"predict", "update", "patchwise", "feedback"} =>
        call.out = call.out_other

\* Feedback mode has matched a clause in two banks whose action planes differ
\* at a padding position.
C3_Witness ==
    /\ call.op = "feedback"
    /\ number_of_features % W # 0
    /\ \E j \in Clauses :
          /\ call.out[j].clause_output = 1
          /\ ~AllExclude(ta_state, j)
          /\ \E l \in StripeBits \ Literals :
                Included(ta_state, j, l) # Included(call.other, j, l)

\* C5: UpdateEval gives 1 exactly when some patch has every included literal
\* below F either set in Xi or switched off in literal_active.
C5_LiteralMask ==
    call.op = "update" =>
        \A j \in Clauses :
            call.out[j] =
                IF \E p \in 0..(number_of_patches - 1) :
                      \A l \in Literals :
                          Included(ta_state, j, l) =>
                              (XiBit(call.Xi, p, l) \/ ~ActiveBit(call.literal_active, l))
                THEN 1 ELSE 0

\* C9 as claimed: when some patch has more than one offending action bit,
\* the search returns none, whatever the other patches are.
C9_AnyPatchGivesNone ==
    call.op = "search" =>
        \A j \in Clauses :
            (\E p \in 0..(number_of_patches - 1) :
                Cardinality(Offenders(ta_state, j, call.literal_active, call.Xi, p)) > 1)
            => call.out[j] = -1

\* C9, amended: when every patch has more than one offending action bit, the
\* search returns none.
C9_EveryPatchGivesNone ==
    call.op = "search" =>
        \A j \in Clauses :
            (\A p \in 0..(number_of_patches - 1) :
                Cardinality(Offenders(ta_state, j, call.literal_active, call.Xi, p)) > 1)
            => call.out[j] = -1

\* The search has returned none for a clause that two patches offend twice each.
C9_Witness ==
    /\ call.op = "search"
    /\ number_of_patches = 2
    /\ \E j \in Clauses :
          /\ call.out[j] = -1
          /\ \A p \in 0..1 :
                Cardinality(Offenders(ta_state, j, call.literal_active, call.Xi, p)) > 1

----------------------------------------------------------------------------
(* Claims about the feedback routines, checked under SpecFeedback. *)

\* C4: a feedback call of any type leaves the stripes of every clause j with
\* clause_active[j] = 0 unchanged in ta_state, ind_state and clause_and_target.
C4_InactiveUnchanged ==
    IsFeedback =>
        \A j \in Clauses :
            call.clause_active[j] = 0 =>
                /\ \A x \in TaStripe(j) : ta_state[x] = call.ta_before[x]
                /\ \A x \in IndStripe(j) : ind_state[x] = call.ind_before[x]
                /\ \A x \in LedgerStripe(j) : clause_and_target[x] = call.cat_before[x]

\* A Type III call has changed all three arrays while one clause was inactive.
C4_Witness ==
    /\ call.op = "type_iii"
    /\ \E j \in Clauses : call.clause_active[j] = 0
    /\ ta_state # call.ta_before
    /\ ind_state # call.ind_before
    /\ clause_and_target # call.cat_before

\* No counter bit of bank arr is set at a padding position.
PaddingZero(arr) ==
    \A x \in DOMAIN arr :
        LET K == NumberOfTaChunks(number_of_features)
            B == number_of_state_bits
        IN (x % (K * B)) \div B = K - 1 => arr[x] \cap PadPositions(number_of_features) = {}

\* C6 as claimed: whatever Xi and literal_active the feedback calls get, no
\* action bit at a padding position is ever set.
C6_PaddingNeverActivated ==
    \A j \in Clauses : \A l \in StripeBits \ Literals : ~Included(ta_state, j, l)

\* C6, amended: a feedback call whose literal_active has no bit at a padding
\* position leaves the padding counters of a bank at zero, so no padding action
\* bit is set.
C6_PaddingStaysZero ==
    (/\ IsFeedback
     /\ PaddingZero(call.ta_before)
     /\ \A l \in StripeBits \ Literals : ~ActiveBit(call.literal_active, l))
    => /\ PaddingZero(ta_state)
       /\ \A j \in Clauses : \A l \in StripeBits \ Literals : ~Included(ta_state, j, l)

\* A Type I call with a padding bit set in Xi but not in literal_active has
\* raised a counter of a matching clause.
C6_Witness ==
    /\ call.op = "type_i"
    /\ \A l \in StripeBits \ Literals : ~ActiveBit(call.literal_active, l)
    /\ \E j \in Clauses :
          /\ call.res[j + 1].processed
          /\ call.res[j + 1].clause_output = 1
          /\ \E l \in StripeBits \ Literals :
                XiBit(call.Xi, call.res[j + 1].clause_patch, l)
          /\ \E l \in Literals :
                CounterOf(ta_state, j, number_of_state_bits, l)
                    > CounterOf(call.ta_before, j, number_of_state_bits, l)

\* The counters of clause j after Type Ib with mask R: those in L & R are one
\* lower (not below 0), the others unchanged.
TypeIbEffect(j) ==
    \A l \in StripeBits :
        LET B == number_of_state_bits
            old == CounterOf(call.ta_before, j, B, l)
        IN CounterOf(ta_state, j, B, l) =
              IF ActiveBit(call.literal_active, l)
                 /\ MaskBit(call.res[j + 1].feedback_to_ta, l)
              THEN Max(old - 1, 0) ELSE old

\* The counters of clause j after Type Ia on patch q with mask R: those in
\* L & X (and not in R, unless boost) are one higher (not above 2^B - 1), those
\* in L & ~X & R one lower (not below 0), the others unchanged.
TypeIaEffect(j) ==
    \A l \in StripeBits :
        LET B == number_of_state_bits
            old == CounterOf(call.ta_before, j, B, l)
            q == call.res[j + 1].clause_patch
            L == ActiveBit(call.literal_active, l)
            X == XiBit(call.Xi, q, l)
            R == MaskBit(call.res[j + 1].feedback_to_ta, l)
        IN CounterOf(ta_state, j, B, l) =
              IF L /\ X /\ (call.boost = 1 \/ ~R) THEN Min(old + 1, Pow2(B) - 1)
              ELSE IF L /\ ~X /\ R THEN Max(old - 1, 0)
              ELSE old

\* C7 as claimed: Type I on an active clause that passes the gate and has no
\* included literal computes clause_output = 0 and takes the Type Ib path.
C7_AllExcludeTakesIb ==
    call.op = "type_i" =>
        \A j \in Clauses :
            (call.res[j + 1].processed /\ AllExclude(call.ta_before, j)) =>
                /\ call.res[j + 1].clause_output = 0
                /\ TypeIbEffect(j)

\* C7, amended: Type I on an active clause that passes the gate and has no
\* included literal computes clause_output = 1 when P >= 1 and takes the
\* Type Ia path on the chosen patch.
C7_AllExcludeTakesIa ==
    call.op = "type_i" =>
        \A j \in Clauses :
            (/\ call.res[j + 1].processed
             /\ AllExclude(call.ta_before, j)
             /\ number_of_patches >= 1) =>
                /\ call.res[j + 1].clause_output = 1
                /\ call.res[j + 1].clause_patch \in 0..(number_of_patches - 1)
                /\ TypeIaEffect(j)

\* F = 2, P = 1, B = 2, every counter of the clause at 1, Xi = 11, L = 11, boost:
\* Type I has raised both counters to 2.
C7_Witness ==
    /\ call.op = "type_i"
    /\ number_of_features = 2 /\ number_of_patches = 1 /\ number_of_state_bits = 2
    /\ call.boost = 1
    /\ \E j \in Clauses :
          /\ call.res[j + 1].processed
          /\ \A l \in Literals :
                /\ CounterOf(call.ta_before, j, 2, l) = 1
                /\ XiBit(call.Xi, 0, l)
                /\ ActiveBit(call.literal_active, l)
                /\ CounterOf(ta_state, j, 2, l) = 2

\* C8: Type II raises by one exactly the counters of a processed, matching
\* clause whose bit is set in literal_active & ~Xi[q] & ~action_bits, q the
\* chosen patch; it changes no other counter, nothing when the clause does not
\* match, and never lowers a counter.
C8_TypeIIEffect ==
    call.op = "type_ii" =>
        /\ ind_state = call.ind_before
        /\ clause_and_target = call.cat_before
        /\ \A j \in Clauses : \A l \in StripeBits :
              LET B == number_of_state_bits
                  old == CounterOf(call.ta_before, j, B, l)
                  r == call.res[j + 1]
              IN CounterOf(ta_state, j, B, l) =
                    IF /\ r.processed
                       /\ r.clause_output = 1
                       /\ ActiveBit(call.literal_active, l)
                       /\ ~XiBit(call.Xi, r.clause_patch, l)
                       /\ ~Included(call.ta_before, j, l)
                    THEN old + 1 ELSE old

\* Type II has chosen the second of two patches and raised one counter of the
\* clause while a literal that is switched off kept its counter.
C8_Witness ==
    /\ call.op = "type_ii"
    /\ number_of_patches = 2
    /\ \E j \in Clauses :
          /\ call.res[j + 1].processed
          /\ call.res[j + 1].clause_output = 1
          /\ call.res[j + 1].clause_patch = 1
          /\ \E l \in Literals :
                CounterOf(ta_state, j, number_of_state_bits, l)
                    = CounterOf(call.ta_before, j, number_of_state_bits, l) + 1
          /\ \E l \in Literals :
                /\ ~ActiveBit(call.literal_active, l)
                /\ ~XiBit(call.Xi, 1, l)
                /\ ~Included(call.ta_before, j, l)
                /\ CounterOf(ta_state, j, number_of_state_bits, l)
                     = CounterOf(call.ta_before, j, number_of_state_bits, l)

\* C10: when the search of Type III returns a literal id l, l is below F and is
\* the bank-wide index of the single offending literal of some patch, and the
\* call toggles exactly the ledger bit of literal l: set if it was clear,
\* cleared if it was set and target = 1.
C10_ReturnedLiteral ==
    call.op = "type_iii" =>
        \A j \in Clauses :
            LET r == call.res[j + 1]
                id == r.offending_literal
            IN (r.processed /\ r.clause_output = 0 /\ id # -1) =>
                  /\ id \in Literals
                  /\ \E p \in 0..(number_of_patches - 1) :
                        Offenders(call.ta_before, j, call.literal_active, call.Xi, p) = {id}
                  /\ \A l \in StripeBits :
                        LedgerBit(clause_and_target, j, l) =
                            IF l = id
                            THEN ~LedgerBit(call.cat_before, j, l)
                                 \/ (LedgerBit(call.cat_before, j, l) /\ call.target = 0)
                            ELSE LedgerBit(call.cat_before, j, l)

\* The bit positions of the stripe where the ledger of clause j differs between
\* two ledgers.
LedgerChanges(before, after, j) ==
    {l \in StripeBits : LedgerBit(after, j, l) # LedgerBit(before, j, l)}

\* C11: Type III on an active clause whose Feedback-mode output is 1 moves the
\* indicator counters by the ledger as it was before the rewrite (on the chosen
\* patch q, a counter in L & X[q] goes one up, when the increment is let
\* through, if its ledger bit was set and one down if it was clear); then
\* every ledger word of the clause is the complement of its previous value
\* when target = 1 and keeps every bit it had when target = 0.  The ledger of
\* a clause whose output is 0 changes in at most one bit.
C11_LiteralInversion ==
    call.op = "type_iii" =>
        \A j \in Clauses :
            LET r == call.res[j + 1]
                B == number_of_state_bits_ind
            IN /\ (r.processed /\ r.clause_output = 1) =>
                    /\ \A l \in StripeBits :
                          LET old == CounterOf(call.ind_before, j, B, l)
                          IN CounterOf(ind_state, j, B, l) =
                                IF /\ ActiveBit(call.literal_active, l)
                                   /\ XiBit(call.Xi, r.clause_patch, l)
                                THEN IF LedgerBit(call.cat_before, j, l)
                                     THEN IF r.ind_inc THEN Min(old + 1, Pow2(B) - 1)
                                          ELSE old
                                     ELSE Max(old - 1, 0)
                                ELSE old
                    /\ \A l \in StripeBits :
                          IF call.target = 1
                          THEN LedgerBit(clause_and_target, j, l)
                                   = ~LedgerBit(call.cat_before, j, l)
                          ELSE LedgerBit(call.cat_before, j, l)
                                   => LedgerBit(clause_and_target, j, l)
               /\ ~(r.processed /\ r.clause_output = 1) =>
                    Cardinality(LedgerChanges(call.cat_before, clause_and_target, j)) <= 1

\* A Type III call with target = 1: one clause matched, an indicator counter
\* of it went up, and its ledger, which had bits of both values, is inverted;
\* another clause did not match and exactly one bit of its ledger changed.
C11_Witness ==
    /\ call.op = "type_iii"
    /\ call.target = 1
    /\ \E j \in Clauses :
          /\ call.res[j + 1].processed
          /\ call.res[j + 1].clause_output = 1
          /\ \E l \in Literals :
                CounterOf(ind_state, j, number_of_state_bits_ind, l)
                    > CounterOf(call.ind_before, j, number_of_state_bits_ind, l)
          /\ \E l \in Literals : LedgerBit(call.cat_before, j, l)
          /\ \E l \in Literals : ~LedgerBit(call.cat_before, j, l)
          /\ LedgerChanges(call.cat_before, clause_and_target, j) = StripeBits
    /\ \E j \in Clauses :
          /\ call.res[j + 1].processed
          /\ call.res[j + 1].clause_output = 0
          /\ Cardinality(LedgerChanges(call.cat_before, clause_and_target, j)) = 1

====
